---- MODULE Spec2Model ----
(***************************************************************************)
(* The simulation step of the most advanced asteroids prototype            *)
(* (src/src/main.ts, lines 1016-1625) with the vector helpers of           *)
(* src/src/math.ts and the seeding helpers of src/src/utils.ts.            *)
(*                                                                         *)
(* Numbers are fixed point:                                                *)
(*   lengths and velocities   1/10 pixel                                   *)
(*   angles                   1/1000 turn (TAU = 1000)                     *)
(*   timestamps, deltaTime,                                                *)
(*   time-to-live             millisecond                                  *)
(*   pure factors, unit                                                    *)
(*   vectors, PRNG draws      1/1000                                       *)
(* Divisions truncate toward zero.                                         *)
(***************************************************************************)
EXTENDS Integers, Sequences, FiniteSets, TLC

VARIABLES
    state,              \* the State instance of main()
    mathRandom,         \* hidden generator state behind Math.random()
    nextId,             \* object identities handed out so far
    previousTimestamp,  \* closure variable of main()
    held,               \* key codes physically down
    call,               \* what the last State.update call did
    shotsAt,            \* timestamps of the calls that spawned a projectile
    twin,               \* a second State instance fed the same calls, if any
    paused,             \* Game.paused
    pending,            \* frame callbacks requested and not yet run
    probe,              \* a function applied on its own: inputs and result
    frames,             \* frame callbacks run so far
    keyEvents           \* key events delivered so far

vars ==
    <<state, mathRandom, nextId, previousTimestamp, held, call, shotsAt, twin, paused,
      pending, probe, frames, keyEvents>>

-----------------------------------------------------------------------------
(* Bounds of the exploration *)

MaxFrames == 3
MaxKeyEvents == 2

\* Frame callbacks the browser holds at once.
MaxPending == 3

\* Frame-to-frame timestamp gaps offered to the scheduler (ms).
FrameGaps == {100, 3000, 91580}

\* Hidden Math.random() generator states at page load.
EntropyValues == {21, 34, 59}

\* States of Math.random() at the start of the run that builds the second State.
TwinEntropyValues == {34}

\* A caller that steps the State directly: update calls so far, the timestamp
\* step and the deltaTime (ms) it passes, the keys held while it runs.
MaxCalls == 22
DriveGaps == {200}
DriveDeltas == {1}
DriveHeld == {{"Space"}, {"Space", "KeyW"}, {"Space", "KeyA"}, {"Space", "KeyW", "KeyD"}, {}}

\* A long game played the same way: the player turns right and fires without
\* a pause until the field is empty, and a while beyond.
MaxSiegeCalls == 1950
SiegeEntropy == {34}
SiegeGaps == {200}
SiegeDeltas == {13}
SiegeHeld == {{"Space", "KeyD"}}

\* A game at five frames a second, thrust and fire held down throughout: the
\* ship dies and is reset with the keys still down.
MaxRespawnCalls == 40
RespawnGaps == {200}
RespawnHeld == {{"Space", "KeyW"}}

\* Functions applied on their own: where the asteroid stands, how far from it
\* the point lies on each axis (1/10 pixel), and the seeds of Asteroid.RANDOM.
ProbeCentres == {[x |-> 8000, y |-> 4500], [x |-> 100, y |-> 100]}
ProbeOffsets ==
    {-880, -624, -240, 0, 240, 511, 512, 513, 528, 576, 623, 624, 625, 704, 879, 880, 881}
ProbeSeeds == 0..47

\* Key codes bound in main().
Codes == {"KeyW", "KeyA", "KeyD", "Space"}

-----------------------------------------------------------------------------
(* Program constants, src/src/main.ts 1027-1042 *)

Fix(px) == 10 * px

TAU == 1000
PI == TAU \div 2
FACTOR == 100
GAME_SIZE == [x |-> Fix(16 * FACTOR), y |-> Fix(9 * FACTOR)]
SCALE == 64
DRAG == 15
TURN_SPEED == 800
MOVE_SPEED == 5
PROJECTILE_SPEED == 200
MAX_PROJECTILES == 20
SHOOTING_RATE == 200
ASTEROID_COUNT == 20
Alive == -1

-----------------------------------------------------------------------------
(* Arithmetic *)

Div(a, b) == IF a >= 0 THEN a \div b ELSE -((-a) \div b)

\* JavaScript %: the remainder has the sign of the dividend.
Rem(n, m) == IF n >= 0 THEN n % m ELSE -((-n) % m)

mod(n, m) == Rem(Rem(n, m) + m, m)

RECURSIVE SqrtIter(_, _)
SqrtIter(n, g) ==
    LET h == (g + n \div g) \div 2
    IN  IF h >= g THEN g ELSE SqrtIter(n, h)

\* Math.sqrt, rounded down (Newton's iteration from above the root).
Sqrt(n) == IF n < 2 THEN n ELSE SqrtIter(n, IF n < 46340 THEN n ELSE 46340)

\* Math.sin of an angle in 0..PI (Bhaskara's rational approximation).
SinHalf(a) == (16000 * (a * (PI - a))) \div (1250000 - 4 * (a * (PI - a)))

Sin(angle) ==
    LET a == angle % TAU
    IN  IF a <= PI THEN SinHalf(a) ELSE -SinHalf(a - PI)

Cos(angle) == Sin(angle + TAU \div 4)

\* Math.atan2(y, x), piecewise linear in each octant.
Atan2(y, x) ==
    LET ax == IF x < 0 THEN -x ELSE x
        ay == IF y < 0 THEN -y ELSE y
        first == IF ax = 0 /\ ay = 0 THEN 0
                 ELSE IF ay <= ax THEN (125 * ay) \div ax
                 ELSE 250 - (125 * ax) \div ay
        upper == IF x < 0 THEN PI - first ELSE first
    IN  IF y < 0 THEN -upper ELSE upper

-----------------------------------------------------------------------------
(* Vector2, src/src/math.ts *)

Vector2(x, y) == [x |-> x, y |-> y]

setAngle(angle) == Vector2(Cos(angle), Sin(angle))

add(this, that) == Vector2(this.x + that.x, this.y + that.y)

scale(this, value) == Vector2(Div(this.x * value, 1000), Div(this.y * value, 1000))

sqrLength(this) == this.x * this.x + this.y * this.y

length(this) == Sqrt(sqrLength(this))

\* scale(1 / l) of a vector held in 1/10 pixel: the result has length one pixel.
norm(this) ==
    LET l == length(this)
    IN  IF l = 0 THEN this ELSE Vector2(Div(Fix(this.x), l), Div(Fix(this.y), l))

sqrDistanceTo(this, that) ==
    LET dx == that.x - this.x
        dy == that.y - this.y
    IN  dx * dx + dy * dy

distanceTo(this, that) == Sqrt(sqrDistanceTo(this, that))

modVector(this, that) == Vector2(mod(this.x, that.x), mod(this.y, that.y))

angleOf(this) == Atan2(this.y, this.x)

-----------------------------------------------------------------------------
(* Random numbers: src/src/utils.ts 84-98 *)

\* One step of the generator behind Math.random().
MathRandomStep(e) == (e * 25173 + 13849) % 65536

\* String(Math.random() ...): the seed is the number drawn.
randomSeed(e) == [seed |-> MathRandomStep(e), rnd |-> MathRandomStep(e)]

\* alea(seed): the generator state derived from the seed.
getRng(seed) == (seed * 20077 + 12345) % 65536

PrngStep(rng) == (rng * 20077 + 12345) % 65536

\* rng() and rng.quick(): a draw in [0, 1) and the advanced generator.
quick(rng) == [val |-> (PrngStep(rng) * 1000) \div 65536, rng |-> PrngStep(rng)]

\* The values of n successive draws.
RECURSIVE quicks(_, _)
quicks(rng, n) ==
    IF n = 0 THEN <<>> ELSE <<quick(rng).val>> \o quicks(PrngStep(rng), n - 1)

\* The generator after n draws.
RECURSIVE PrngSteps(_, _)
PrngSteps(rng, n) == IF n = 0 THEN rng ELSE PrngSteps(PrngStep(rng), n - 1)

prngIntInRange(rng, atLeast, atMost) ==
    [val |-> (quick(rng).val * (atMost - atLeast + 1)) \div 1000 + atLeast,
     rng |-> PrngStep(rng)]

-----------------------------------------------------------------------------
(* Entities: src/src/main.ts 1044-1226 *)

AsteroidKind == [BIG |-> "BIG", MEDIUM |-> "MEDIUM", SMALL |-> "SMALL"]

AsteroidSizeBIG ==
    [kind |-> "BIG", value |-> Div(Fix(SCALE) * 25, 10), velocityScale |-> 500,
     collisionScale |-> 550, score |-> 20]

AsteroidSizeMEDIUM ==
    [kind |-> "MEDIUM", value |-> Div(Fix(SCALE) * 15, 10), velocityScale |-> 800,
     collisionScale |-> 650, score |-> 50]

AsteroidSizeSMALL ==
    [kind |-> "SMALL", value |-> Div(Fix(SCALE) * 8, 10), velocityScale |-> 1000,
     collisionScale |-> 1000, score |-> 100]

\* The i-th of the n points of a shape; d holds the three draws of its pass:
\* the radius, the dent, the angle.
shapePoint(n, i, d) ==
    scale(setAngle(Div(i * TAU, n) + Div(Div(PI * 125, 1000) * d[3], 1000)),
          300 + Div(200 * d[1], 1000) - (IF d[2] < 200 THEN 150 ELSE 0))

RECURSIVE randomShapeFrom(_, _, _, _)
randomShapeFrom(rng, n, i, acc) ==
    IF i = n THEN [shape |-> acc, rng |-> rng]
    ELSE randomShapeFrom(PrngSteps(rng, 3), n, i + 1,
                         Append(acc, shapePoint(n, i, quicks(rng, 3))))

randomShape(rng) ==
    randomShapeFrom(PrngStep(rng), prngIntInRange(rng, 8, 15).val, 0, <<>>)

Asteroid(id, seed, size, pos, vel, rot, shape) ==
    [id |-> id, seed |-> seed, size |-> size, pos |-> pos, vel |-> vel,
     rot |-> rot, shape |-> shape]

\* The size picked with the first draw used in both comparisons.
randomSizeOneDraw(d) ==
    IF d[1] > 300 THEN AsteroidSizeBIG
    ELSE IF d[1] > 600 THEN AsteroidSizeMEDIUM
    ELSE AsteroidSizeSMALL

\* The size Asteroid.RANDOM picks from its first draws d; the second draw is
\* made only when the first is at most 0.3.
randomSize(d) ==
    IF d[1] > 300 THEN AsteroidSizeBIG
    ELSE IF d[2] > 600 THEN AsteroidSizeMEDIUM
    ELSE AsteroidSizeSMALL

sizeDraws(d) == IF d[1] > 300 THEN 1 ELSE 2

\* The rest of Asteroid.RANDOM: sh is the shape and the generator left by
\* randomShape, d the draws for the angle and the position.
randomPlaced(seed, id, size, sh, d) ==
    Asteroid(id, seed, size,
             Vector2(Div(d[2] * GAME_SIZE.x, 1000), Div(d[3] * GAME_SIZE.y, 1000)),
             Vector2(0, 0), Div(TAU * d[1], 1000), sh.shape)

randomShaped(seed, id, size, sh) == randomPlaced(seed, id, size, sh, quicks(sh.rng, 3))

RANDOM(seed, id) ==
    randomShaped(seed, id, randomSize(quicks(getRng(seed), 2)),
                 randomShape(PrngSteps(getRng(seed), sizeDraws(quicks(getRng(seed), 2)))))

\* isColliding with <= for <.
isCollidingInclusive(this, pos) ==
    distanceTo(this.pos, pos) <= Div(this.size.value * this.size.collisionScale, 1000)

isColliding(this, pos) ==
    distanceTo(this.pos, pos) < Div(this.size.value * this.size.collisionScale, 1000)

\* The velocity of the i-th child of a split; d holds the draws of its pass:
\* rot, speedMultiplier, angleOffset.
splitVel(this, impact, i, d) ==
    scale(setAngle(angleOf(impact)
                   + Div(Div(PI, 4) * (d[3] - 500), 1000)
                   + (IF i = 0 THEN Div(PI, 2) ELSE -Div(PI, 2))),
          Div(length(this.vel) * (Div(1500 * d[2], 1000) + 500), 1000))

\* A child of a split made at new Vector2() rather than at this.pos.clone().
splitChildUnplaced(this, impact, size, i, seed, id, d) ==
    Asteroid(id, seed, size, Vector2(0, 0), splitVel(this, impact, i, d),
             Div(TAU * d[1], 1000), randomShape(getRng(seed)).shape)

\* One child of a split: the i-th pass of the loop of Asteroid.split.
splitChildFrom(this, impact, size, i, seed, id, d) ==
    Asteroid(id, seed, size, this.pos, splitVel(this, impact, i, d),
             Div(TAU * d[1], 1000), randomShape(getRng(seed)).shape)

splitChild(this, impact, size, i, seed, id) ==
    splitChildFrom(this, impact, size, i, seed, id, quicks(getRng(seed), 3))

\* The two children of a split, of the given size, from the seeds s0 and s1.
splitInto(this, impact, size, s0, s1, ids) ==
    [null |-> FALSE,
     asteroids |-> << splitChild(this, impact, size, 0, s0.seed, ids),
                      splitChild(this, impact, size, 1, s1.seed, ids + 1) >>,
     rnd |-> s1.rnd, ids |-> ids + 2]

\* Asteroid.split with the tier step left out: the children keep the tier of
\* the parent.
splitSameTier(this, impact, rnd, ids) ==
    IF this.size.kind = AsteroidKind.SMALL
    THEN [null |-> TRUE, asteroids |-> <<>>, rnd |-> rnd, ids |-> ids]
    ELSE splitInto(this, impact, this.size,
                   randomSeed(rnd), randomSeed(MathRandomStep(rnd)), ids)

\* Asteroid.split with the SMALL early return left out: a SMALL asteroid gets
\* two SMALL children.
splitUngated(this, impact, rnd, ids) ==
    splitInto(this, impact,
              IF this.size.kind = AsteroidKind.BIG
              THEN AsteroidSizeMEDIUM ELSE AsteroidSizeSMALL,
              randomSeed(rnd), randomSeed(MathRandomStep(rnd)), ids)

\* Asteroid.split with MEDIUM children for a MEDIUM parent as well.
splitToMedium(this, impact, rnd, ids) ==
    IF this.size.kind = AsteroidKind.SMALL
    THEN [null |-> TRUE, asteroids |-> <<>>, rnd |-> rnd, ids |-> ids]
    ELSE splitInto(this, impact, AsteroidSizeMEDIUM,
                   randomSeed(rnd), randomSeed(MathRandomStep(rnd)), ids)

\* Asteroid.split: null for a SMALL asteroid, else the two children; rnd and
\* ids are the Math.random() state and the identities left afterwards.
split(this, impact, rnd, ids) ==
    IF this.size.kind = AsteroidKind.SMALL
    THEN [null |-> TRUE, asteroids |-> <<>>, rnd |-> rnd, ids |-> ids]
    ELSE splitInto(this, impact,
                   IF this.size.kind = AsteroidKind.BIG
                   THEN AsteroidSizeMEDIUM ELSE AsteroidSizeSMALL,
                   randomSeed(rnd), randomSeed(MathRandomStep(rnd)), ids)

Ship ==
    [pos |-> scale(GAME_SIZE, 500), vel |-> Vector2(0, 0), rot |-> 0,
     shooting |-> FALSE, movingForward |-> FALSE,
     turning |-> [left |-> FALSE, right |-> FALSE], diedAt |-> Alive]

dead(ship) == ship.diedAt # Alive

shipReset(ship) ==
    [ship EXCEPT !.pos = scale(GAME_SIZE, 500), !.vel = Vector2(0, 0), !.rot = 0,
                 !.movingForward = FALSE, !.turning.left = FALSE,
                 !.turning.right = FALSE, !.diedAt = Alive]

LineParticle(id, pos, vel, ttl, rot, len) ==
    [id |-> id, pos |-> pos, vel |-> vel, ttl |-> ttl, rot |-> rot, length |-> len]

Projectile(id, pos, vel, ttl) == [id |-> id, pos |-> pos, vel |-> vel, ttl |-> ttl]

-----------------------------------------------------------------------------
(* State: src/src/main.ts 1228-1378.                                       *)
(* The operations work on a record m: st is the State instance, rnd the    *)
(* Math.random() generator, ids the next object identity, log the account  *)
(* of the running update call.                                             *)

RECURSIVE Without(_, _)
Without(seq, id) ==
    IF seq = <<>> THEN <<>>
    ELSE IF Head(seq).id = id THEN Tail(seq)
    ELSE <<Head(seq)>> \o Without(Tail(seq), id)

\* The object e written back into the collection, when it is still a member.
Stored(seq, e) == [i \in 1..Len(seq) |-> IF seq[i].id = e.id THEN e ELSE seq[i]]

RECURSIVE initAsteroidsFrom(_, _, _)
initAsteroidsFrom(m, i, asteroidCount) ==
    IF i >= asteroidCount THEN m
    ELSE initAsteroidsFrom(
             [m EXCEPT !.rnd = MathRandomStep(@), !.ids = @ + 1,
                       !.st.asteroids = Append(@, RANDOM(randomSeed(m.rnd).seed, m.ids))],
             i + 1, asteroidCount)

\* initAsteroids with asteroids.clear() left out.
initAsteroidsKeeping(m, asteroidCount) == initAsteroidsFrom(m, 0, asteroidCount)

initAsteroids(m, asteroidCount) ==
    initAsteroidsFrom([m EXCEPT !.st.asteroids = <<>>], 0, asteroidCount)

\* The first three statements of reset: the seed drawn, its generator, Ship.reset.
reseed(m) ==
    [m EXCEPT !.rnd = MathRandomStep(@), !.st.seed = randomSeed(m.rnd).seed,
              !.st.rng = getRng(randomSeed(m.rnd).seed), !.st.ship = shipReset(@)]

\* reset with particles.clear() left out.
clearProjectiles(m) == [m EXCEPT !.st.projectiles = <<>>]

\* The last two statements of reset, and the State as reset leaves it.
clearShots(m) == [m EXCEPT !.st.particles = <<>>, !.st.projectiles = <<>>]

resetReturns(m) == [m EXCEPT !.log.resets = Append(@, m.st)]

reset(m) == resetReturns(clearShots(initAsteroids(reseed(m), ASTEROID_COUNT)))

\* The projectile of shoot; direction is the vector after its first scale.
shot(m, direction) ==
    Projectile(m.ids, add(m.st.ship.pos, direction), scale(direction, PROJECTILE_SPEED),
               3000)

spawn(m, p) ==
    [m EXCEPT !.st.lastShotAt = m.st.timestamp, !.ids = @ + 1,
              !.st.projectiles = Append(@, p), !.log.shots = Append(@, p)]

\* shoot with the lastShotAt assignment left out.
shootForgetful(m) ==
    IF Len(m.st.projectiles) >= MAX_PROJECTILES THEN m
    ELSE [spawn(m, shot(m, scale(setAngle(m.st.ship.rot - Div(PI, 2)),
                                 Div(Fix(SCALE), 3))))
             EXCEPT !.st.lastShotAt = m.st.lastShotAt]

\* shoot with the MAX_PROJECTILES guard left out.
shootUncapped(m) ==
    spawn(m, shot(m, scale(setAngle(m.st.ship.rot - Div(PI, 2)), Div(Fix(SCALE), 3))))

shoot(m) ==
    IF Len(m.st.projectiles) >= MAX_PROJECTILES THEN m
    ELSE spawn(m, shot(m, scale(setAngle(m.st.ship.rot - Div(PI, 2)),
                                Div(Fix(SCALE), 3))))

\* The particles.forEach of the dead branch of updateShip.
ageParticles(m, deltaTime) ==
    [m EXCEPT !.st.particles =
        [i \in 1..Len(@) |->
            [@[i] EXCEPT !.ttl = IF @ - deltaTime > 0 THEN @ - deltaTime ELSE 0]]]

\* updateShip for a dead ship: the particles age, and the reset falls due.
mournShip(m, timestamp, deltaTime) ==
    IF timestamp - m.st.ship.diedAt > 3 * 1000
    THEN reset(ageParticles(m, deltaTime))
    ELSE ageParticles(m, deltaTime)

\* The rotation a turning key adds or takes in one call.
turnBy(deltaTime) == Div(Div(deltaTime * TAU, 1000) * TURN_SPEED, 1000)

\* The turn with else-if between the two keys: left wins when both are down.
turnShipExclusive(m) ==
    [m EXCEPT !.st.ship.rot =
        IF m.st.ship.turning.left THEN @ - turnBy(m.st.deltaTime)
        ELSE IF m.st.ship.turning.right THEN @ + turnBy(m.st.deltaTime)
        ELSE @]

turnShip(m) ==
    [m EXCEPT !.st.ship.rot =
        @ - (IF m.st.ship.turning.left THEN turnBy(m.st.deltaTime) ELSE 0)
          + (IF m.st.ship.turning.right THEN turnBy(m.st.deltaTime) ELSE 0)]

\* direction is the heading computed before the turn.
thrustShip(m, direction) ==
    IF m.st.ship.movingForward
    THEN [m EXCEPT !.st.ship.vel =
             add(@, scale(direction, Div(Fix(MOVE_SPEED) * m.st.deltaTime, 1000)))]
    ELSE m

fireShip(m) ==
    IF m.st.ship.shooting /\ m.st.timestamp - m.st.lastShotAt >= SHOOTING_RATE
    THEN shoot(m) ELSE m

\* Drag, move, wrap.
glideShip(m) ==
    [m EXCEPT !.st.ship.vel = scale(@, 1000 - DRAG),
              !.st.ship.pos = modVector(add(@, scale(m.st.ship.vel, 1000 - DRAG)),
                                        GAME_SIZE)]

\* updateShip for a live ship: turn, thrust, fire, drag, move, wrap.
steerShip(m) ==
    glideShip(fireShip(thrustShip(turnShip(m), setAngle(m.st.ship.rot - Div(PI, 2)))))

\* updateShip with the return of the dead branch left out: a dead ship that is
\* not reset is steered like a live one.
updateShipFallthrough(m, timestamp, deltaTime) ==
    IF dead(m.st.ship) /\ timestamp - m.st.ship.diedAt > 3 * 1000
    THEN mournShip(m, timestamp, deltaTime)
    ELSE steerShip(IF dead(m.st.ship) THEN mournShip(m, timestamp, deltaTime) ELSE m)

\* updateShip with the reset test outside the dead branch: a live ship, whose
\* diedAt is -1, is reset as well once the timestamp has passed 3 s.
updateShipRestless(m, timestamp, deltaTime) ==
    IF dead(m.st.ship) THEN mournShip(m, timestamp, deltaTime)
    ELSE IF timestamp - m.st.ship.diedAt > 3 * 1000 THEN reset(m)
    ELSE steerShip(m)

updateShip(m, timestamp, deltaTime) ==
    IF dead(m.st.ship) THEN mournShip(m, timestamp, deltaTime) ELSE steerShip(m)

\* The i-th death particle; d holds the draws of its pass: angle, the two
\* offsets, the speed, the life, the rotation, the length.
deathParticle(m, i, d) ==
    LineParticle(m.ids,
                 add(m.st.ship.pos,
                     Vector2(Div(d[2] * Fix(3), 1000), Div(d[3] * Fix(3), 1000))),
                 scale(setAngle(Div(TAU * d[1], 1000)), Div(3 * d[4], 1000)),
                 1000 + 1000 * i + d[5],
                 Div(TAU * d[6], 1000),
                 Div(Fix(SCALE) * (600 + Div(400 * d[7], 1000)), 1000))

burst(m, p) ==
    [m EXCEPT !.st.rng = PrngSteps(@, 7), !.ids = @ + 1,
              !.st.particles = Append(@, p), !.log.burst = Append(@, p)]

RECURSIVE deathParticles(_, _)
deathParticles(m, i) ==
    IF i >= 4 THEN m
    ELSE deathParticles(burst(m, deathParticle(m, i, quicks(m.st.rng, 7))), i + 1)

\* checkAsteroidCollision with the !this.ship.dead test left out.
checkAsteroidCollisionAgain(m, a) ==
    IF isColliding(a, m.st.ship.pos)
    THEN deathParticles([m EXCEPT !.st.ship.diedAt = m.st.timestamp,
                                  !.log.deaths = Append(@, a.id)], 0)
    ELSE m

checkAsteroidCollision(m, a) ==
    IF ~dead(m.st.ship) /\ isColliding(a, m.st.ship.pos)
    THEN deathParticles([m EXCEPT !.st.ship.diedAt = m.st.timestamp,
                                  !.log.deaths = Append(@, a.id)], 0)
    ELSE m

\* The asteroid after thrust along its heading, drag, move and wrap.
moveAsteroid(a, vel) == [a EXCEPT !.vel = vel, !.pos = modVector(add(@, vel), GAME_SIZE)]

driftAsteroid(a, deltaTime) ==
    moveAsteroid(a, scale(add(a.vel, scale(setAngle(a.rot - Div(PI, 2)),
                                          Div(a.size.velocityScale * deltaTime, 100000))),
                          1000 - DRAG))

updateAsteroidTo(m, i, moved) ==
    checkAsteroidCollision([m EXCEPT !.st.asteroids[i] = moved], moved)

\* i is the place of the asteroid in the collection.
updateAsteroid(m, i) ==
    updateAsteroidTo(m, i, driftAsteroid(m.st.asteroids[i], m.st.deltaTime))

\* updateParticle with the delete left out.
updateParticleKept(m, p) ==
    IF p.ttl > m.st.deltaTime
    THEN [m EXCEPT !.st.particles =
             Stored(@, [p EXCEPT !.pos = modVector(add(@, p.vel), GAME_SIZE),
                                 !.ttl = @ - m.st.deltaTime])]
    ELSE [m EXCEPT !.st.particles =
             Stored(@, [p EXCEPT !.pos = modVector(add(@, p.vel), GAME_SIZE)])]

updateParticle(m, p) ==
    IF p.ttl > m.st.deltaTime
    THEN [m EXCEPT !.st.particles =
             Stored(@, [p EXCEPT !.pos = modVector(add(@, p.vel), GAME_SIZE),
                                 !.ttl = @ - m.st.deltaTime])]
    ELSE [m EXCEPT !.st.particles = Without(@, p.id)]

\* The projectile object once p.pos.norm() has run on it.
struck(p) == [p EXCEPT !.pos = norm(@)]

\* The callback of projectilePath for an asteroid a that collides with the
\* projectile p; q is the projectile object as the callback leaves it, sp what
\* a.split returned.
hitAsteroid(m, p, q, a, sp) ==
    [m EXCEPT !.rnd = sp.rnd, !.ids = sp.ids,
              !.st.projectiles = Without(@, p.id),
              !.st.newAsteroidQueue = @ \o sp.asteroids,
              !.log.hits = Append(@, [projectile |-> p.id, at |-> p.pos, left |-> q.pos,
                                      asteroid |-> a, null |-> sp.null,
                                      children |-> sp.asteroids])]

\* The asteroids.forEach of projectilePath: todo are the members not yet
\* visited, kept the visited ones still live, p the projectile object, whose
\* pos the call of norm() overwrites.
RECURSIVE projectilePathFrom(_, _, _, _)
projectilePathFrom(m, p, todo, kept) ==
    IF todo = <<>> THEN [m |-> [m EXCEPT !.st.asteroids = kept], p |-> p]
    ELSE IF isColliding(Head(todo), p.pos)
         THEN projectilePathFrom(
                  hitAsteroid(m, p, struck(p), Head(todo),
                              split(Head(todo), struck(p).pos, m.rnd, m.ids)),
                  struck(p), Tail(todo), kept)
         ELSE projectilePathFrom(m, p, Tail(todo), Append(kept, Head(todo)))

\* projectilePath with asteroids.delete(a) left out.
projectilePathKeeping(m, p) ==
    [projectilePathFrom(m, p, m.st.asteroids, <<>>) EXCEPT !.m.st.asteroids = m.st.asteroids]

projectilePath(m, p) == projectilePathFrom(m, p, m.st.asteroids, <<>>)

\* updateProjectile with p.ttl -= deltaTime left out.
flyProjectileUnaged(r, p, deltaTime) ==
    IF p.ttl > deltaTime
    THEN [r.m EXCEPT !.st.projectiles =
             Stored(@, [r.p EXCEPT !.pos = modVector(add(@, p.vel), GAME_SIZE)])]
    ELSE [r.m EXCEPT !.st.projectiles = Without(@, p.id),
                     !.log.expired = Append(@, p.id)]

\* updateProjectile after projectilePath, which left the state r.m and the
\* projectile r.p: move, wrap, age or expire.
flyProjectile(r, p, deltaTime) ==
    IF p.ttl > deltaTime
    THEN [r.m EXCEPT !.st.projectiles =
             Stored(@, [r.p EXCEPT !.pos = modVector(add(@, p.vel), GAME_SIZE),
                                   !.ttl = @ - deltaTime])]
    ELSE [r.m EXCEPT !.st.projectiles = Without(@, p.id),
                     !.log.expired = Append(@, p.id)]

updateProjectile(m, p) == flyProjectile(projectilePath(m, p), p, m.st.deltaTime)

\* The member of a collection with the given identity, if it is still there.
Live(seq, id) == SelectSeq(seq, LAMBDA e : e.id = id)

\* collection.forEach(step): the members are visited in insertion order; a
\* member removed before its turn is skipped, and the object visited is the
\* member as it is stored at that moment; once the collection is empty there
\* is no member left to visit.
RECURSIVE forEachParticle(_, _)
forEachParticle(m, ids) ==
    IF ids = <<>> \/ m.st.particles = <<>> THEN m
    ELSE forEachParticle(IF Live(m.st.particles, Head(ids)) = <<>> THEN m
                         ELSE updateParticle(m, Live(m.st.particles, Head(ids))[1]),
                         Tail(ids))

\* asteroids.forEach(updateAsteroid): no asteroid joins or leaves the
\* collection during this pass, so the members are visited by place.
RECURSIVE forEachAsteroid(_, _)
forEachAsteroid(m, i) ==
    IF i > Len(m.st.asteroids) THEN m
    ELSE forEachAsteroid(updateAsteroid(m, i), i + 1)

RECURSIVE forEachProjectile(_, _)
forEachProjectile(m, ids) ==
    IF ids = <<>> \/ m.st.projectiles = <<>> THEN m
    ELSE forEachProjectile(IF Live(m.st.projectiles, Head(ids)) = <<>> THEN m
                           ELSE updateProjectile(m, Live(m.st.projectiles, Head(ids))[1]),
                           Tail(ids))

Ids(seq) == [i \in 1..Len(seq) |-> seq[i].id]

\* The passes of update over the particles and the projectiles.
updateParticles(m) == forEachParticle(m, Ids(m.st.particles))

updateProjectiles(m) == forEachProjectile(m, Ids(m.st.projectiles))

\* The merge with newAsteroidQueue.clear() left out.
mergeQueueKeeping(m) == [m EXCEPT !.st.asteroids = @ \o m.st.newAsteroidQueue]

\* The last two statements of update.
mergeQueue(m) ==
    [m EXCEPT !.st.asteroids = @ \o m.st.newAsteroidQueue,
              !.st.newAsteroidQueue = <<>>]

update(m, timestamp, deltaTime) ==
    mergeQueue(updateProjectiles(forEachAsteroid(updateParticles(
        updateShip([m EXCEPT !.st.timestamp = timestamp, !.st.deltaTime = deltaTime],
                   timestamp, deltaTime)), 1)))

\* new State(seed): the constructor's defaults, then initAsteroids.
NewState(seed, rnd, ids) ==
    initAsteroids(
        [st |-> [seed |-> seed, rng |-> getRng(seed), timestamp |-> 0, deltaTime |-> 0,
                 ship |-> Ship, asteroids |-> <<>>, particles |-> <<>>,
                 projectiles |-> <<>>, lastShotAt |-> 0, newAsteroidQueue |-> <<>>],
         rnd |-> rnd, ids |-> ids, log |-> <<>>],
        ASTEROID_COUNT)

-----------------------------------------------------------------------------
(* Game: src/src/main.ts 1380-1568.                                        *)
(* The canvas context is written and never read back, so it is left out;   *)
(* each drawing operation is the value of the objects it was handed, as    *)
(* the call leaves them.                                                   *)

clone(this) == Vector2(this.x, this.y)

\* rotate with its constants cos and sin worked out.
rotateBy(this, cos, sin) ==
    Vector2(Div(this.x * cos - this.y * sin, 1000),
            Div(this.x * sin + this.y * cos, 1000))

rotate(this, angle) == rotateBy(this, Cos(angle), Sin(angle))

\* transform working on p itself rather than on a clone of it.
transformInPlace(p, origin, sc, rotation) ==
    [p |-> add(scale(rotate(p, rotation), sc), origin), origin |-> origin,
     out |-> add(scale(rotate(p, rotation), sc), origin)]

\* transform of drawLines applied to the object p: out is the point handed
\* to drawLine, p and origin are the two objects afterwards.
transform(p, origin, sc, rotation) ==
    [p |-> p, origin |-> origin,
     out |-> add(scale(rotate(clone(p), rotation), sc), origin)]

\* The objects d of a drawLines call once transform has returned t for points[i].
transformed(d, i, t) == [origin |-> t.origin, points |-> [d.points EXCEPT ![i] = t.p]]

transformAt(d, sc, rotation, i) ==
    transformed(d, i, transform(d.points[i], d.origin, sc, rotation))

\* One turn of the loop of drawLines: transform(from), then transform(to).
drawSegment(d, sc, rotation, i, j) ==
    transformAt(transformAt(d, sc, rotation, i), sc, rotation, j)

\* The turns i..points.length of the loop.
RECURSIVE drawLinesFrom(_, _, _, _)
drawLinesFrom(d, sc, rotation, i) ==
    IF i > Len(d.points) THEN d
    ELSE drawLinesFrom(drawSegment(d, sc, rotation, i, (i % Len(d.points)) + 1),
                       sc, rotation, i + 1)

\* drawLines: the origin and the points, as the call leaves them.
drawLines(origin, sc, rotation, points) ==
    drawLinesFrom([origin |-> origin, points |-> points], sc, rotation, 1)

\* ctx.arc reads center.x and center.y.
drawCircleFill(center, radius) == center

\* a.shape is spread into the points of drawLines: the same objects.
drawnAsteroid(a, d) == [a EXCEPT !.pos = d.origin, !.shape = d.points]

drawAsteroid(a) == drawnAsteroid(a, drawLines(a.pos, a.size.value, 0, a.shape))

\* Every Particle made is a LineParticle; its two points are new objects.
drawParticle(p) ==
    [p EXCEPT !.pos = drawLines(@, p.length, p.rot,
                                <<Vector2(-500, 0), Vector2(500, 0)>>).origin]

drawProjectile(p) == [p EXCEPT !.pos = drawCircleFill(@, Fix(SCALE) \div 20)]

drawHull(ship) ==
    [ship EXCEPT !.pos = drawLines(@, Fix(SCALE), ship.rot,
                                   <<Vector2(0, -500), Vector2(300, 300),
                                     Vector2(100, 100), Vector2(-100, 100),
                                     Vector2(-300, 300)>>).origin]

drawFlame(ship, timestamp) ==
    IF ship.movingForward /\ (timestamp * 10) % 2 = 0
    THEN [ship EXCEPT !.pos = drawLines(@, Fix(SCALE), ship.rot,
                                        <<Vector2(-100, 200), Vector2(0, 500),
                                          Vector2(100, 200)>>).origin]
    ELSE ship

drawShip(ship, timestamp) ==
    IF dead(ship) THEN ship ELSE drawFlame(drawHull(ship), timestamp)

\* Game.render on the State st: st as the call leaves it.
render(st, timestamp) ==
    [st EXCEPT !.ship = drawShip(@, timestamp),
               !.asteroids = [i \in 1..Len(@) |-> drawAsteroid(@[i])],
               !.particles = [i \in 1..Len(@) |-> drawParticle(@[i])],
               !.projectiles = [i \in 1..Len(@) |-> drawProjectile(@[i])]]

-----------------------------------------------------------------------------
(* main(): src/src/main.ts 1570-1625 *)

\* No function has been applied on its own.
NoProbe == [op |-> "none"]

EmptyLog ==
    [resets |-> <<>>, shots |-> <<>>, burst |-> <<>>, deaths |-> <<>>,
     hits |-> <<>>, expired |-> <<>>]

\* The callback registered for a key code, applied with down.
keyCallback(ship, code, down) ==
    IF code = "KeyW" THEN [ship EXCEPT !.movingForward = down]
    ELSE IF code = "KeyA" THEN [ship EXCEPT !.turning.left = down]
    ELSE IF code = "KeyD" THEN [ship EXCEPT !.turning.right = down]
    ELSE [ship EXCEPT !.shooting = down]

\* A second State instance, when there is one, receives the same calls.
twinKey(t, code, down) ==
    [i \in 1..Len(t) |-> [t[i] EXCEPT !.st.ship = keyCallback(@, code, down)]]

twinUpdate(t, timestamp, deltaTime) ==
    [i \in 1..Len(t) |->
        LET m == update([t[i] EXCEPT !.log = EmptyLog], timestamp, deltaTime)
        IN  [m EXCEPT !.log = <<>>]]

\* main() up to the first frame request: the seed, then new State(seed).
Boot(e) == NewState(randomSeed(e).seed, randomSeed(e).rnd, 1)

Init ==
    \E e \in EntropyValues :
        \E m \in {Boot(e)} :
            /\ state = m.st
            /\ mathRandom = m.rnd
            /\ nextId = m.ids
            /\ previousTimestamp = 0
            /\ held = {}
            /\ call = [pre |-> m.st, post |-> m.st, rnd |-> m.rnd, log |-> EmptyLog]
            /\ shotsAt = <<>>
            /\ twin = <<>>
            /\ paused = FALSE
            /\ probe = NoProbe
            /\ pending = 1
            /\ frames = 0
            /\ keyEvents = 0

\* The same, with a second State built from the same seed in a run of its own.
InitTwin ==
    \E e \in EntropyValues, e2 \in TwinEntropyValues :
        \E m \in {Boot(e)} :
            /\ state = m.st
            /\ mathRandom = m.rnd
            /\ nextId = m.ids
            /\ previousTimestamp = 0
            /\ held = {}
            /\ call = [pre |-> m.st, post |-> m.st, rnd |-> m.rnd, log |-> EmptyLog]
            /\ shotsAt = <<>>
            /\ twin = <<NewState(m.st.seed, randomSeed(e2).rnd, 1)>>
            /\ paused = FALSE
            /\ probe = NoProbe
            /\ pending = 1
            /\ frames = 0
            /\ keyEvents = 0

\* keydown listener of registerKey, for an event that is not a repeat.
KeyDown(code) ==
    /\ keyEvents < MaxKeyEvents
    /\ code \notin held
    /\ held' = held \cup {code}
    /\ state' = [state EXCEPT !.ship = keyCallback(@, code, TRUE)]
    /\ twin' = twinKey(twin, code, TRUE)
    /\ keyEvents' = keyEvents + 1
    /\ UNCHANGED <<mathRandom, nextId, previousTimestamp, call, shotsAt, paused,
                   pending, probe, frames>>

\* keyup listener of registerKey.
KeyUp(code) ==
    /\ keyEvents < MaxKeyEvents
    /\ code \in held
    /\ held' = held \ {code}
    /\ state' = [state EXCEPT !.ship = keyCallback(@, code, FALSE)]
    /\ twin' = twinKey(twin, code, FALSE)
    /\ keyEvents' = keyEvents + 1
    /\ UNCHANGED <<mathRandom, nextId, previousTimestamp, call, shotsAt, paused,
                   pending, probe, frames>>

\* state.update of a frame callback that did not return early.
frameUpdate(m, timestamp, dt) == update([m EXCEPT !.log = EmptyLog], timestamp, dt)

\* game.render of a frame callback.
frameRender(m, timestamp) == [m EXCEPT !.st = render(@, timestamp)]

\* The first k callbacks of a display frame, none paused: the first finds
\* previousTimestamp gap behind timestamp, the others find it equal.
RECURSIVE frameCallbacks(_, _, _, _)
frameCallbacks(m, timestamp, gap, k) ==
    IF k = 0 THEN m
    ELSE frameRender(frameUpdate(frameCallbacks(m, timestamp, gap, k - 1), timestamp,
                                 IF k = 1 THEN gap ELSE 0),
                     timestamp)

\* A display frame: the browser runs every frame callback requested so far
\* with one timestamp. A callback that finds the game paused returns; the
\* others run state.update and game.render and request the next callback.
Frame(gap) ==
    /\ pending > 0
    /\ IF paused
       THEN /\ pending' = 0
            /\ UNCHANGED <<state, mathRandom, nextId, previousTimestamp, call, shotsAt,
                           twin, frames>>
       ELSE /\ frames + pending <= MaxFrames
            /\ LET timestamp == previousTimestamp + gap
                   dt == IF pending = 1 THEN timestamp - previousTimestamp ELSE 0
               IN  \E b \in {frameCallbacks([st |-> state, rnd |-> mathRandom,
                                             ids |-> nextId, log |-> EmptyLog],
                                            timestamp, gap, pending - 1)} :
                   \E m \in {frameUpdate(b, timestamp, dt)} :
                       /\ state' = render(m.st, timestamp)
                       /\ mathRandom' = m.rnd
                       /\ nextId' = m.ids
                       /\ previousTimestamp' = timestamp
                       /\ call' = [pre |-> b.st, post |-> m.st, rnd |-> b.rnd,
                                   log |-> m.log]
                       /\ shotsAt' = shotsAt \o [i \in 1..Len(m.log.shots) |-> timestamp]
                       /\ twin' = twinUpdate(twin, timestamp, dt)
            /\ frames' = frames + pending
            /\ pending' = pending
    /\ UNCHANGED <<held, keyEvents, paused, probe>>

\* blur listener of the window (first main()).
Blur ==
    /\ pending < MaxPending
    /\ paused' = TRUE
    /\ pending' = pending + 1
    /\ UNCHANGED <<state, mathRandom, nextId, previousTimestamp, held, call, shotsAt,
                   twin, probe, frames, keyEvents>>

\* focus listener of the window (first main()).
Focus ==
    /\ pending < MaxPending
    /\ paused' = FALSE
    /\ pending' = pending + 1
    /\ UNCHANGED <<state, mathRandom, nextId, previousTimestamp, held, call, shotsAt,
                   twin, probe, frames, keyEvents>>

\* State.update called directly, with a deltaTime of the caller's choosing.
DriveTo(cap, gap, dt) ==
    /\ frames < cap
    /\ \E m \in {update([st |-> state, rnd |-> mathRandom, ids |-> nextId,
                        log |-> EmptyLog], previousTimestamp + gap, dt)} :
           /\ state' = m.st
           /\ mathRandom' = m.rnd
           /\ nextId' = m.ids
           /\ call' = [pre |-> state, post |-> m.st, rnd |-> mathRandom, log |-> m.log]
           /\ shotsAt' = shotsAt \o [i \in 1..Len(m.log.shots) |-> previousTimestamp + gap]
    /\ previousTimestamp' = previousTimestamp + gap
    /\ frames' = frames + 1
    /\ UNCHANGED <<held, keyEvents, twin, paused, pending, probe>>

Drive(gap, dt) == DriveTo(MaxCalls, gap, dt)

\* The intents of the keys in keys, set on a ship.
RECURSIVE pressed(_, _)
pressed(ship, keys) ==
    IF keys = {} THEN ship
    ELSE pressed(keyCallback(ship, CHOOSE k \in keys : TRUE, TRUE),
                 keys \ {CHOOSE k \in keys : TRUE})

\* A State built as in main(), the keys of one of DriveHeld down, no frame run.
InitDriven ==
    \E e \in EntropyValues, keys \in DriveHeld :
        \E m \in {Boot(e)} :
            /\ state = [m.st EXCEPT !.ship = pressed(@, keys)]
            /\ mathRandom = m.rnd
            /\ nextId = m.ids
            /\ previousTimestamp = 0
            /\ held = keys
            /\ call = [pre |-> m.st, post |-> m.st, rnd |-> m.rnd, log |-> EmptyLog]
            /\ shotsAt = <<>>
            /\ twin = <<>>
            /\ paused = FALSE
            /\ probe = NoProbe
            /\ pending = 0
            /\ frames = 0
            /\ keyEvents = 0

NextDriven == \E gap \in DriveGaps, dt \in DriveDeltas : Drive(gap, dt)

SpecDriven == InitDriven /\ [][NextDriven]_vars

\* The long game: the same caller, more calls.
InitSiege ==
    \E e \in SiegeEntropy, keys \in SiegeHeld :
        \E m \in {Boot(e)} :
            /\ state = [m.st EXCEPT !.ship = pressed(@, keys)]
            /\ mathRandom = m.rnd
            /\ nextId = m.ids
            /\ previousTimestamp = 0
            /\ held = keys
            /\ call = [pre |-> m.st, post |-> m.st, rnd |-> m.rnd, log |-> EmptyLog]
            /\ shotsAt = <<>>
            /\ twin = <<>>
            /\ paused = FALSE
            /\ probe = NoProbe
            /\ pending = 0
            /\ frames = 0
            /\ keyEvents = 0

Siege(gap, dt) == DriveTo(MaxSiegeCalls, gap, dt)

NextSiege == \E gap \in SiegeGaps, dt \in SiegeDeltas : Siege(gap, dt)

SpecSiege == InitSiege /\ [][NextSiege]_vars

\* The game at five frames a second: deltaTime is the timestamp step.
InitRespawn ==
    \E e \in EntropyValues, keys \in RespawnHeld :
        \E m \in {Boot(e)} :
            /\ state = [m.st EXCEPT !.ship = pressed(@, keys)]
            /\ mathRandom = m.rnd
            /\ nextId = m.ids
            /\ previousTimestamp = 0
            /\ held = keys
            /\ call = [pre |-> m.st, post |-> m.st, rnd |-> m.rnd, log |-> EmptyLog]
            /\ shotsAt = <<>>
            /\ twin = <<>>
            /\ paused = FALSE
            /\ probe = NoProbe
            /\ pending = 0
            /\ frames = 0
            /\ keyEvents = 0

Respawn(gap) == DriveTo(MaxRespawnCalls, gap, gap)

NextRespawn == \E gap \in RespawnGaps : Respawn(gap)

SpecRespawn == InitRespawn /\ [][NextRespawn]_vars

\* The first main(): it requests no frame itself, the window listeners do.
InitBlur ==
    \E e \in EntropyValues :
        \E m \in {Boot(e)} :
            /\ state = m.st
            /\ mathRandom = m.rnd
            /\ nextId = m.ids
            /\ previousTimestamp = 0
            /\ held = {}
            /\ call = [pre |-> m.st, post |-> m.st, rnd |-> m.rnd, log |-> EmptyLog]
            /\ shotsAt = <<>>
            /\ twin = <<>>
            /\ paused = FALSE
            /\ probe = NoProbe
            /\ pending = 0
            /\ frames = 0
            /\ keyEvents = 0

NextBlur ==
    \/ Blur
    \/ Focus
    \/ \E gap \in FrameGaps : Frame(gap)

SpecBlur == InitBlur /\ [][NextBlur]_vars

\* A State holding the one asteroid a, with the ship and a projectile at point.
probeState(st, a, point) ==
    [st EXCEPT !.ship = [Ship EXCEPT !.pos = point], !.asteroids = <<a>>,
               !.particles = <<>>,
               !.projectiles = <<Projectile(1, point, Vector2(0, 0), 3000)>>]

\* The three uses of the collision test on the machine m: the method itself,
\* checkAsteroidCollision for the ship, projectilePath for the projectile.
collisionProbe(m, a, point) ==
    [op |-> "isColliding", a |-> a, point |-> point,
     out |-> isColliding(a, point),
     died |-> dead(checkAsteroidCollision(m, a).st.ship),
     hit |-> projectilePath(m, m.st.projectiles[1]).m.log.hits # <<>>]

\* a.isColliding(point) for an asteroid of the given size at centre and the
\* point the offsets lead to, wrapped into the playfield as positions are.
Collide(size, centre, dx, dy) ==
    /\ probe = NoProbe
    /\ \E a \in {Asteroid(0, 0, size, centre, Vector2(0, 0), 0, <<>>)} :
       \E point \in {modVector(add(centre, Vector2(dx, dy)), GAME_SIZE)} :
           probe' = collisionProbe([st |-> probeState(state, a, point),
                                    rnd |-> mathRandom, ids |-> 2, log |-> EmptyLog],
                                   a, point)
    /\ UNCHANGED <<state, mathRandom, nextId, previousTimestamp, held, call, shotsAt,
                   twin, paused, pending, frames, keyEvents>>

\* Asteroid.RANDOM(seed).
Pick(seed) ==
    /\ probe = NoProbe
    /\ probe' = [op |-> "RANDOM", seed |-> seed, a |-> RANDOM(seed, 0)]
    /\ UNCHANGED <<state, mathRandom, nextId, previousTimestamp, held, call, shotsAt,
                   twin, paused, pending, frames, keyEvents>>

NextProbe ==
    \/ \E size \in {AsteroidSizeBIG, AsteroidSizeMEDIUM, AsteroidSizeSMALL},
          centre \in ProbeCentres, dx \in ProbeOffsets, dy \in ProbeOffsets :
           Collide(size, centre, dx, dy)
    \/ \E seed \in ProbeSeeds : Pick(seed)

SpecProbe == Init /\ [][NextProbe]_vars

Next ==
    \/ \E code \in Codes : KeyDown(code)
    \/ \E code \in Codes : KeyUp(code)
    \/ \E gap \in FrameGaps : Frame(gap)

Spec == Init /\ [][Next]_vars

SpecTwin == InitTwin /\ [][Next]_vars

-----------------------------------------------------------------------------
(* Vocabulary of the properties *)

\* A State.update call has run; call describes the latest one.
Updated == frames > 0

Pre == call.pre
Log == call.log

InField(pos) ==
    /\ 0 <= pos.x /\ pos.x < GAME_SIZE.x
    /\ 0 <= pos.y /\ pos.y < GAME_SIZE.y

Members(seq) == {seq[i] : i \in 1..Len(seq)}
IdSet(seq) == {seq[i].id : i \in 1..Len(seq)}

Rank(kind) == IF kind = "BIG" THEN 3 ELSE IF kind = "MEDIUM" THEN 2 ELSE 1

\* The entity collections of a State, object identities left out.
Bare(seq) == [i \in 1..Len(seq) |-> [f \in DOMAIN seq[i] \ {"id"} |-> seq[i][f]]]

Entities(st) ==
    [ship |-> st.ship, asteroids |-> Bare(st.asteroids),
     projectiles |-> Bare(st.projectiles), particles |-> Bare(st.particles)]

-----------------------------------------------------------------------------
\* C1: after every update call the ship, every live asteroid, every live
\* projectile and every live particle lies in [0, GAME_SIZE.x) x [0, GAME_SIZE.y).
C1_ToroidalInvariant ==
    Updated =>
        /\ InField(state.ship.pos)
        /\ \A a \in Members(state.asteroids) : InField(a.pos)
        /\ \A p \in Members(state.projectiles) : InField(p.pos)
        /\ \A p \in Members(state.particles) : InField(p.pos)

\* C2: two State instances built from the same seed and given the same calls
\* hold identical ship, asteroids, projectiles and particles.
C2_Determinism ==
    \A i \in 1..Len(twin) : Entities(twin[i].st) = Entities(state)

\* C3: in one update call a projectile removes at most one asteroid.
C3_ProjectileHitsOnce ==
    Updated =>
        \A i \in 1..Len(Log.hits), j \in 1..Len(Log.hits) :
            Log.hits[i].projectile = Log.hits[j].projectile => i = j

\* The call in which exactly one projectile hit exactly one asteroid.
OneHit == Updated /\ Len(Log.hits) = 1

HitIds == {Log.hits[i].projectile : i \in 1..Len(Log.hits)}

\* Projectiles of the latest call that ran out of time-to-live without a hit.
ExpiredIds ==
    {p.id : p \in {q \in Members(Pre.projectiles) \cup Members(Log.shots) :
                      q.ttl <= state.deltaTime /\ q.id \notin HitIds}}

AsteroidDelta(kind) == IF kind = "SMALL" THEN -1 ELSE 1

\* C4 as stated: with one hit in the call the parent is gone, the asteroid
\* count moves by +1 (BIG, MEDIUM) or -1 (SMALL), and the projectile count by -1.
C4_ConservationAsStated ==
    OneHit =>
        /\ Log.hits[1].asteroid.id \notin IdSet(state.asteroids)
        /\ Len(state.asteroids)
               = Len(Pre.asteroids) + AsteroidDelta(Log.hits[1].asteroid.size.kind)
        /\ Len(state.projectiles) = Len(Pre.projectiles) - 1

\* C4 amended: the projectile count is the count before the call, plus the
\* projectile fired in the call, minus those that ran out of time-to-live in
\* it, minus exactly one for the consumed projectile.
C4_Conservation ==
    OneHit =>
        /\ Log.hits[1].asteroid.id \notin IdSet(state.asteroids)
        /\ Len(state.asteroids)
               = Len(Pre.asteroids) + AsteroidDelta(Log.hits[1].asteroid.size.kind)
        /\ Log.hits[1].projectile \notin IdSet(state.projectiles)
        /\ Len(state.projectiles)
               = Len(Pre.projectiles) + Len(Log.shots) - Cardinality(ExpiredIds) - 1

C4_Witness == OneHit /\ Log.hits[1].asteroid.size.kind # "SMALL"

\* C5: the children of a split are exactly one tier below the parent, a SMALL
\* asteroid has no children, and outside a reset every asteroid that is new
\* after a call is such a child; the others keep their tier.
C5_TierMonotonic ==
    Updated =>
        /\ \A i \in 1..Len(Log.hits) :
               LET h == Log.hits[i]
               IN  /\ h.asteroid.size.kind = "SMALL" => h.children = <<>>
                   /\ h.asteroid.size.kind # "SMALL" => Len(h.children) = 2
                   /\ \A c \in Members(h.children) :
                          Rank(c.size.kind) = Rank(h.asteroid.size.kind) - 1
        /\ Log.resets = <<>> =>
               \A a \in Members(state.asteroids) :
                   \/ \E b \in Members(Pre.asteroids) : b.id = a.id /\ b.size = a.size
                   \/ \E i \in 1..Len(Log.hits) :
                          /\ \E c \in Members(Log.hits[i].children) : c.id = a.id
                          /\ Rank(a.size.kind) < Rank(Log.hits[i].asteroid.size.kind)

C5_Witness ==
    /\ Updated
    /\ \E i \in 1..Len(Log.hits) :
           /\ Log.hits[i].asteroid.size.kind = "BIG"
           /\ \E c \in Members(Log.hits[i].children) : c.id \in IdSet(state.asteroids)

DeadCall == Updated /\ Pre.ship.diedAt # Alive /\ Log.resets = <<>>

\* C7: a call that starts with the ship dead and does not reset leaves the
\* ship's position, velocity and rotation and lastShotAt as they were and
\* spawns no projectile, whatever the intents; every particle ages.
C7_DeathGating ==
    DeadCall =>
        /\ state.ship.pos = Pre.ship.pos
        /\ state.ship.vel = Pre.ship.vel
        /\ state.ship.rot = Pre.ship.rot
        /\ state.lastShotAt = Pre.lastShotAt
        /\ Log.shots = <<>>
        /\ IdSet(state.projectiles) \subseteq IdSet(Pre.projectiles)
        /\ \A p \in Members(Pre.particles) :
               \A q \in Members(state.particles) : q.id = p.id => q.ttl < p.ttl

C7_Witness ==
    /\ DeadCall
    /\ Pre.ship.movingForward /\ Pre.ship.shooting
    /\ state.timestamp - Pre.lastShotAt >= SHOOTING_RATE
    /\ state.particles # <<>>

\* C8: a call with timestamp - diedAt <= 3000 leaves a dead ship dead; a call
\* with timestamp - diedAt > 3000 ends with the ship alive, ASTEROID_COUNT
\* asteroids and no particle and no projectile.
C8_RespawnTiming ==
    (Updated /\ Pre.ship.diedAt # Alive) =>
        IF state.timestamp - Pre.ship.diedAt > 3000
        THEN /\ state.ship.diedAt = Alive
             /\ Len(state.asteroids) = ASTEROID_COUNT
             /\ state.particles = <<>>
             /\ state.projectiles = <<>>
        ELSE state.ship.diedAt = Pre.ship.diedAt

\* C9: right after reset returns the ship is at the centre, at rest, unrotated
\* and alive; the asteroids are ASTEROID_COUNT new objects; there is no
\* particle and no projectile; the generator is the one of the seed just drawn.
C9_ResetPostState ==
    Updated =>
        \A i \in 1..Len(Log.resets) :
            LET r == Log.resets[i]
            IN  /\ r.ship.pos = Vector2(GAME_SIZE.x \div 2, GAME_SIZE.y \div 2)
                /\ r.ship.vel = Vector2(0, 0)
                /\ r.ship.rot = 0
                /\ r.ship.diedAt = Alive
                /\ Len(r.asteroids) = ASTEROID_COUNT
                /\ IdSet(r.asteroids) \cap IdSet(Pre.asteroids) = {}
                /\ Cardinality(IdSet(r.asteroids)) = ASTEROID_COUNT
                /\ \A a \in Members(r.asteroids) : a.vel = Vector2(0, 0) /\ InField(a.pos)
                /\ r.particles = <<>>
                /\ r.projectiles = <<>>
                /\ r.seed = MathRandomStep(call.rnd)
                /\ r.rng = getRng(r.seed)

C9_Witness ==
    /\ Updated /\ Log.resets # <<>>
    /\ Pre.projectiles # <<>> /\ Pre.particles # <<>>

\* C10: projectiles are spawned at least SHOOTING_RATE apart and at most one
\* per call, only with the shooting intent set and SHOOTING_RATE elapsed
\* since lastShotAt; lastShotAt moves only in a call that spawns one.
C10_FireRate ==
    /\ \A i \in 1..Len(shotsAt), j \in 1..Len(shotsAt) :
           i < j => shotsAt[j] - shotsAt[i] >= SHOOTING_RATE
    /\ Updated =>
           /\ Len(Log.shots) <= 1
           /\ Log.shots # <<>> =>
                  /\ Pre.ship.shooting
                  /\ state.timestamp - Pre.lastShotAt >= SHOOTING_RATE
                  /\ state.lastShotAt = state.timestamp
           /\ Log.shots = <<>> => state.lastShotAt = Pre.lastShotAt

C10_Witness ==
    /\ Len(shotsAt) >= 2
    /\ shotsAt[Len(shotsAt)] - shotsAt[Len(shotsAt) - 1] = SHOOTING_RATE

\* C11: there are never more than MAX_PROJECTILES live projectiles; a call
\* whose fire request finds the collection full spawns nothing, leaves
\* lastShotAt and the projectiles' identities as they were, and a projectile
\* is spawned only in a call that starts below the cap with the intent set.
C11_ProjectileCap ==
    /\ Len(state.projectiles) <= MAX_PROJECTILES
    /\ Updated =>
           /\ Log.shots # <<>> =>
                  Pre.ship.shooting /\ Len(Pre.projectiles) < MAX_PROJECTILES
           /\ Len(Pre.projectiles) >= MAX_PROJECTILES =>
                  /\ Log.shots = <<>>
                  /\ state.lastShotAt = Pre.lastShotAt
                  /\ IdSet(state.projectiles) \subseteq IdSet(Pre.projectiles)

C11_Witness ==
    /\ Updated
    /\ Len(Pre.projectiles) = MAX_PROJECTILES
    /\ Pre.ship.diedAt = Alive /\ Pre.ship.shooting
    /\ state.timestamp - Pre.lastShotAt >= SHOOTING_RATE

\* The asteroids of the State whose collision test the ship's position meets.
Colliders == {a \in Members(state.asteroids) : isColliding(a, state.ship.pos)}

\* C12: a call kills the ship at most once, and only a ship that is alive; the
\* call in which an asteroid's collision test is met sets diedAt to its
\* timestamp and adds exactly 4 particles, the i-th with a time-to-live in
\* [1 + i, 2 + i) s; a ship that ends a call alive meets no asteroid's test;
\* a call that starts with the ship dead and does not reset adds no particle
\* and leaves diedAt as it was.
C12_ShipDeath ==
    Updated =>
        /\ Len(Log.deaths) <= 1
        /\ Len(Log.burst) = 4 * Len(Log.deaths)
        /\ Log.deaths # <<>> =>
               /\ Pre.ship.diedAt = Alive \/ Log.resets # <<>>
               /\ state.ship.diedAt = state.timestamp
               /\ state.particles = Log.burst
               /\ \A i \in 0..3 :
                      /\ 1000 * (1 + i) <= Log.burst[i + 1].ttl
                      /\ Log.burst[i + 1].ttl < 1000 * (2 + i)
        /\ Log.deaths = <<>> =>
               /\ Log.resets = <<>> => state.ship.diedAt = Pre.ship.diedAt
               /\ state.ship.diedAt = Alive => Colliders = {}
               /\ IdSet(state.particles) \subseteq IdSet(Pre.particles)

\* The ship died in a call in which two asteroids met the collision test.
C12_Witness ==
    /\ Updated /\ Log.deaths # <<>> /\ Pre.ship.diedAt = Alive
    /\ Cardinality(Colliders) >= 2

\* C13: a call that starts with the ship dead and does not reset leaves every
\* particle in the collection where it was, with the velocity it had, and with
\* its time-to-live smaller by exactly deltaTime, not below 0.
C13_ParticlesWhileDead ==
    DeadCall =>
        \A p \in Members(Pre.particles) :
            \E q \in Members(state.particles) :
                /\ q.id = p.id
                /\ q.pos = p.pos
                /\ q.vel = p.vel
                /\ q.ttl = IF p.ttl - state.deltaTime > 0 THEN p.ttl - state.deltaTime ELSE 0


\* C14: rendering is read-only. A frame leaves the State exactly as its
\* State.update call left it, and no step changes the shape of an asteroid
\* that is live before and after it.
C14_RenderReadOnly ==
    [][/\ frames' = frames + 1 => state' = call'.post
       /\ \A a \in Members(state.asteroids) :
              \A b \in Members(state'.asteroids) :
                  a.id = b.id => a.shape = b.shape]_vars

\* A frame has drawn a turned ship, asteroids and projectiles.
C14_Witness ==
    /\ Updated /\ state = call.post
    /\ ~dead(state.ship) /\ state.ship.rot # 0
    /\ state.asteroids # <<>> /\ state.projectiles # <<>>
    /\ IdSet(Pre.asteroids) \cap IdSet(state.asteroids) # {}


\* C15: sequential scheduling. However display frames interleave with window
\* blur and focus events, at most one frame callback is pending, a display
\* frame runs State.update at most once, and no update runs while paused.
C15_SequentialScheduling ==
    [][/\ pending <= 1 /\ pending' <= 1
       /\ frames' <= frames + 1
       /\ paused => frames' = frames]_vars


\* The hits of the latest update call that split their asteroid.
Splits == {h \in Members(Log.hits) : ~h.null}

\* C16: split placement. At the end of an update call in which a projectile
\* hit a BIG (MEDIUM) asteroid, both children are live, both are MEDIUM
\* (SMALL), and each is exactly as split made it, at the position the parent
\* had when it was hit: the call that creates them does not move them.
C16_SplitPlacement ==
    Updated =>
        \A h \in Splits :
            /\ Len(h.children) = 2
            /\ h.children[1].id # h.children[2].id
            /\ \A i \in 1..2 :
                   /\ h.children[i] \in Members(state.asteroids)
                   /\ h.children[i].pos = h.asteroid.pos
                   /\ h.children[i].size.kind =
                          (IF h.asteroid.size.kind = AsteroidKind.BIG
                           THEN AsteroidKind.MEDIUM ELSE AsteroidKind.SMALL)

\* A BIG asteroid that had drifted was split by a projectile.
C16_Witness ==
    /\ Updated
    /\ \E h \in Splits :
           /\ h.asteroid.size.kind = AsteroidKind.BIG
           /\ h.asteroid.vel # Vector2(0, 0)
           /\ h.children[1].vel # Vector2(0, 0)


\* deltaTime * 2 * PI * TURN_SPEED of the latest call, in 1/1000 turn.
FullTurn == (((state.deltaTime * TAU) \div 1000) * TURN_SPEED) \div 1000

\* The velocity a ship that does not turn gets from the latest call.
Unturned ==
    scale(IF Pre.ship.movingForward
          THEN add(Pre.ship.vel,
                   scale(setAngle(Pre.ship.rot - PI \div 2),
                         (Fix(MOVE_SPEED) * state.deltaTime) \div 1000))
          ELSE Pre.ship.vel,
          1000 - DRAG)

\* C17: turning. An update call with the ship alive takes deltaTime*2*PI*
\* TURN_SPEED from the rotation when turning.left is set and adds as much when
\* turning.right is set (both set: no net change; neither: none), and the
\* velocity is what it would be without the turn.
C17_Turning ==
    (Updated /\ Pre.ship.diedAt = Alive) =>
        /\ state.ship.rot = Pre.ship.rot
                            - (IF Pre.ship.turning.left THEN FullTurn ELSE 0)
                            + (IF Pre.ship.turning.right THEN FullTurn ELSE 0)
        /\ (Pre.ship.turning.left /\ Pre.ship.turning.right) =>
               state.ship.rot = Pre.ship.rot
        /\ state.ship.vel = Unturned
        /\ ~Pre.ship.movingForward => state.ship.vel = scale(Pre.ship.vel, 1000 - DRAG)

\* Both turning keys were down during a call of a live ship.
C17_Witness ==
    /\ Updated /\ Pre.ship.diedAt = Alive /\ FullTurn > 0
    /\ Pre.ship.turning.left /\ Pre.ship.turning.right


\* The asteroid of a hit of the latest call, as the call found it.
Before(h) == CHOOSE a \in Members(Pre.asteroids) : a.id = h.asteroid.id

\* The hits of the latest call on asteroids that were live when it began.
OldHits == {h \in Members(Log.hits) : h.asteroid.id \in IdSet(Pre.asteroids)}

\* C18: sub-step order. The projectile pass runs before the asteroid pass, so
\* an asteroid removed by a projectile in an update call was not moved in
\* that call.
C18_ProjectilesBeforeAsteroids ==
    (Updated /\ Log.resets = <<>>) =>
        \A h \in OldHits : h.asteroid = Before(h)

\* What update does instead: the asteroid pass runs first. An asteroid removed
\* by a projectile has been moved once in that call and tested against the
\* ship, which dies in that call if it is alive and touched; a projectile
\* fired in the call is flown in the same call.
AsteroidsBeforeProjectiles ==
    (Updated /\ Log.resets = <<>>) =>
        /\ \A h \in OldHits :
               /\ h.asteroid = driftAsteroid(Before(h), state.deltaTime)
               /\ (Pre.ship.diedAt = Alive /\ isColliding(h.asteroid, state.ship.pos))
                      => state.ship.diedAt = state.timestamp
        /\ \A p \in Members(Log.shots) :
               \A q \in Members(state.projectiles) :
                   q.id = p.id => q.ttl = p.ttl - state.deltaTime


\* The identities of the children made by the splits of the latest call.
ChildIds == UNION {IdSet(h.children) : h \in Members(Log.hits)}

Heading == setAngle(state.ship.rot - PI \div 2)

\* C20: projectile spawn. A projectile made by shoot starts at the ship's
\* position plus SCALE/3 along the heading d, with velocity d times
\* PROJECTILE_SPEED and a time-to-live of 3.0 s, and lastShotAt becomes the
\* timestamp of the call.
C20_ProjectileSpawn ==
    Updated =>
        \A p \in Members(Log.shots) :
            /\ p.pos = add(Pre.ship.pos, scale(Heading, Fix(SCALE) \div 3))
            /\ p.vel = scale(Heading, Fix(PROJECTILE_SPEED) \div 1000)
            /\ p.ttl = 3000
            /\ state.lastShotAt = state.timestamp


\* The projectiles that enter the projectile pass of the latest call.
Flying == Members(Pre.projectiles) \cup Members(Log.shots)

\* C21: no aliasing in hit resolution. The hit test and the impact direction
\* handed to split leave the projectile's position alone: every hit of a call
\* is tested at the position the projectile had when the pass began and
\* leaves it there, and a projectile still live was moved by pos += vel and
\* the wrap only.
C21_NoAliasing ==
    (Updated /\ Log.resets = <<>>) =>
        /\ \A h \in Members(Log.hits) :
               /\ h.left = h.at
               /\ \E p \in Flying : p.id = h.projectile /\ p.pos = h.at
        /\ \A q \in Members(state.projectiles) :
               \E p \in Flying :
                   p.id = q.id /\ q.pos = modVector(add(p.pos, p.vel), GAME_SIZE)


\* The collision radius of an asteroid: size.value * size.collisionScale.
Reach(a) == (a.size.value * a.size.collisionScale) \div 1000

\* C22: collision test. isColliding(point) is true exactly when the plain
\* (unwrapped) distance from the asteroid's position to the point is strictly
\* less than size.value * size.collisionScale, and the ship test and the
\* projectile test give the same answer as the method.
C22_CollisionTest ==
    probe.op = "isColliding" =>
        /\ probe.out <=> (sqrDistanceTo(probe.a.pos, probe.point)
                              < Reach(probe.a) * Reach(probe.a))
        /\ probe.died <=> probe.out
        /\ probe.hit <=> probe.out

\* A point exactly at the collision radius, off the axes, was tested and does
\* not collide.
C22_Witness ==
    /\ probe.op = "isColliding" /\ ~probe.out /\ ~probe.died /\ ~probe.hit
    /\ probe.point.x # probe.a.pos.x /\ probe.point.y # probe.a.pos.y
    /\ sqrDistanceTo(probe.a.pos, probe.point) = Reach(probe.a) * Reach(probe.a)


\* The first and the second draw from the generator of the probed seed, and
\* the generator after each.
FirstDraw == quick(getRng(probe.seed))
SecondDraw == quick(FirstDraw.rng)

\* C23: asteroid size selection. Asteroid.RANDOM gives BIG when the first draw
\* is above 0.3, else MEDIUM when the second draw is above 0.6, else SMALL;
\* the shape is drawn from the stream right after the first draw for a BIG
\* asteroid and right after the second otherwise.
C23_SizeSelection ==
    probe.op = "RANDOM" =>
        /\ probe.a.size.kind =
               (IF FirstDraw.val > 300 THEN AsteroidKind.BIG
                ELSE IF SecondDraw.val > 600 THEN AsteroidKind.MEDIUM
                ELSE AsteroidKind.SMALL)
        /\ probe.a.shape =
               randomShape(IF FirstDraw.val > 300 THEN FirstDraw.rng
                           ELSE SecondDraw.rng).shape

\* A SMALL asteroid was picked although the second draw, taken as a first
\* draw, would have given BIG.
C23_Witness ==
    /\ probe.op = "RANDOM" /\ probe.a.size.kind = AsteroidKind.SMALL
    /\ FirstDraw.val <= 300 /\ SecondDraw.val > 300 /\ SecondDraw.val <= 600


\* C24: projectile lifetime. A projectile leaves the live collection in the
\* call where it hits or where its time-to-live is at most deltaTime, and
\* otherwise stays with its time-to-live lowered by deltaTime, whether the
\* ship is alive or dead; a live projectile has therefore been flown for
\* less than 3.0 s in all, and a reset leaves none.
C24_ProjectileLifetime ==
    Updated =>
        /\ Log.resets # <<>> => state.projectiles = <<>>
        /\ Log.resets = <<>> =>
               \A p \in Flying :
                   IF p.id \in HitIds \/ p.ttl <= state.deltaTime
                   THEN p.id \notin IdSet(state.projectiles)
                   ELSE \E q \in Members(state.projectiles) :
                            q.id = p.id /\ q.ttl = p.ttl - state.deltaTime
        /\ IdSet(state.projectiles) \subseteq {p.id : p \in Flying}
        /\ \A q \in Members(state.projectiles) :
               0 < q.ttl /\ q.ttl <= 3000 - state.deltaTime

\* While the ship was dead a projectile ran out of time without a hit.
C24_Witness ==
    /\ Updated /\ Log.resets = <<>> /\ Pre.ship.diedAt # Alive
    /\ \E p \in Members(Pre.projectiles) :
           p.ttl <= state.deltaTime /\ p.id \notin HitIds


\* The time-to-live of a particle of the previous state when updateParticle
\* reads it: updateShip has already aged it if the ship was dead.
AtUpdate(p) ==
    IF Pre.ship.diedAt = Alive THEN p.ttl
    ELSE IF p.ttl - state.deltaTime > 0 THEN p.ttl - state.deltaTime ELSE 0

\* C25: time-to-live expiry. After every update call each live particle and
\* each live projectile has a positive time-to-live; one whose time-to-live
\* at its update is at most deltaTime is removed in that call, any other is
\* kept with deltaTime taken off.
C25_TtlExpiry ==
    Updated =>
        /\ \A q \in Members(state.particles) \cup Members(state.projectiles) :
               q.ttl > 0
        /\ Log.resets = <<>> =>
               /\ \A p \in Members(Pre.particles) :
                      IF AtUpdate(p) <= state.deltaTime
                      THEN p.id \notin IdSet(state.particles)
                      ELSE \E q \in Members(state.particles) :
                               q.id = p.id /\ q.ttl = AtUpdate(p) - state.deltaTime
               /\ \A p \in Flying :
                      p.ttl <= state.deltaTime =>
                          p.id \notin IdSet(state.projectiles)

\* A call that removed a particle whose time-to-live had been above
\* deltaTime before updateShip aged it.
C25_Witness ==
    /\ Updated /\ Log.resets = <<>>
    /\ \E p \in Members(Pre.particles) :
           /\ p.ttl > state.deltaTime
           /\ AtUpdate(p) <= state.deltaTime
           /\ p.id \notin IdSet(state.particles)


\* C26: particles exist only while the ship is dead. At the end of every
\* update call a live ship means an empty particle collection; particles
\* are added only in a call that logs a death.
C26_ParticlesOnlyWhileDead ==
    /\ state.ship.diedAt = Alive => state.particles = <<>>
    /\ Updated =>
           /\ Log.burst # <<>> => Log.deaths # <<>>
           /\ IdSet(state.particles) \subseteq
                  IdSet(Pre.particles) \cup IdSet(Log.burst)

\* A reset found particles with time left and left a live ship with none.
C26_Witness ==
    /\ Log.resets # <<>>
    /\ \E p \in Members(Pre.particles) : AtUpdate(p) > state.deltaTime
    /\ state.ship.diedAt = Alive
    /\ state.particles = <<>>


Weight(kind) == IF kind = "BIG" THEN 4 ELSE IF kind = "MEDIUM" THEN 2 ELSE 1

RECURSIVE WeightFrom(_, _)
WeightFrom(seq, i) ==
    IF i > Len(seq) THEN 0 ELSE Weight(seq[i].size.kind) + WeightFrom(seq, i + 1)

TotalWeight(seq) == WeightFrom(seq, 1)

SmallHits == {i \in 1..Len(Log.hits) : Log.hits[i].asteroid.size.kind = "SMALL"}

\* C27: bounded asteroid population. With weights BIG = 4, MEDIUM = 2 and
\* SMALL = 1 the children of a hit weigh as much as a BIG or MEDIUM parent and
\* nothing for a SMALL one; a call without a reset changes the total weight of
\* the live asteroids by minus the number of SMALL asteroids hit; the weight
\* and the count are at most 4 * ASTEROID_COUNT in every state.
C27_BoundedPopulation ==
    /\ TotalWeight(state.asteroids) <= 4 * ASTEROID_COUNT
    /\ Len(state.asteroids) <= 4 * ASTEROID_COUNT
    /\ Updated =>
           /\ \A h \in Members(Log.hits) :
                  TotalWeight(h.children) =
                      IF h.asteroid.size.kind = "SMALL" THEN 0
                      ELSE Weight(h.asteroid.size.kind)
           /\ Log.resets = <<>> =>
                  TotalWeight(state.asteroids) =
                      TotalWeight(Pre.asteroids) - Cardinality(SmallHits)
           /\ Log.resets # <<>> => Len(state.asteroids) = ASTEROID_COUNT

\* A call that split a MEDIUM asteroid: two more asteroids than the reset
\* made, and the weight as before the call.
C27_Witness ==
    /\ Updated /\ Log.resets = <<>>
    /\ \E h \in Members(Log.hits) : h.asteroid.size.kind = "MEDIUM"
    /\ Len(state.asteroids) > ASTEROID_COUNT + 1
    /\ TotalWeight(state.asteroids) = TotalWeight(Pre.asteroids)


Cleared == Updated /\ state.ship.diedAt = Alive /\ state.asteroids = <<>>

\* C28: a cleared field is absorbing. Once an update call ends with the ship
\* alive and no asteroid live, every later call ends the same way and runs no
\* reset; a call adds asteroids only as children of its splits or by a reset,
\* a reset needs a ship that was dead, and a death an asteroid.
C28_ClearedAbsorbing ==
    /\ [][Cleared => (Cleared' /\ call'.log.resets = <<>>)]_vars
    /\ [](Updated =>
            /\ Log.resets = <<>> =>
                   IdSet(state.asteroids) \subseteq IdSet(Pre.asteroids) \cup ChildIds
            /\ Log.resets # <<>> => Pre.ship.diedAt # Alive
            /\ Log.deaths # <<>> => (Pre.asteroids # <<>> \/ Log.resets # <<>>))

\* A call that began with the field already cleared and still fired a shot.
C28_Witness ==
    /\ Cleared
    /\ Pre.asteroids = <<>> /\ Pre.ship.diedAt = Alive
    /\ Log.shots # <<>>


\* The projectiles of the latest call in the order projectiles.forEach visits
\* them: those in flight before the call, then the one fired in it.
Launched == Pre.projectiles \o Log.shots

\* Projectile k of the pass meets asteroid a where it stood at its own turn:
\* it hit nothing, so its position was not overwritten.
Aimed(k, a) ==
    /\ Launched[k].id \notin HitIds
    /\ isColliding(a, Launched[k].pos)

\* C29: an asteroid is hit at most once. No two hits of a call name the same
\* asteroid; a hit asteroid is gone and left at most 2 children; of the
\* projectiles that meet the test of a hit asteroid, none stood before the
\* one that hit it, and each later one is not consumed by it: it flies on
\* unless its time-to-live ran out.
C29_HitAtMostOnce ==
    (Updated /\ Log.resets = <<>>) =>
        /\ \A i, j \in 1..Len(Log.hits) :
               Log.hits[i].asteroid.id = Log.hits[j].asteroid.id => i = j
        /\ Cardinality(ChildIds) <= 2 * Len(Log.hits)
        /\ \A h \in Members(Log.hits) :
               /\ h.asteroid.id \notin IdSet(state.asteroids)
               /\ Len(h.children) <= 2
               /\ \A k \in 1..Len(Launched) :
                      Aimed(k, h.asteroid) =>
                          /\ \E i \in 1..(k - 1) : Launched[i].id = h.projectile
                          /\ Launched[k].ttl > state.deltaTime =>
                                 \E q \in Members(state.projectiles) :
                                     /\ q.id = Launched[k].id
                                     /\ q.ttl = Launched[k].ttl - state.deltaTime
                                     /\ q.pos = modVector(add(Launched[k].pos,
                                                              Launched[k].vel), GAME_SIZE)

\* Two projectiles met the test of one asteroid in the same call: the first
\* split it in two, the second is still in flight.
C29_Witness ==
    /\ Updated /\ Log.resets = <<>>
    /\ \E h \in Members(Log.hits) :
           /\ Len(h.children) = 2
           /\ \E k \in 1..Len(Launched) :
                  /\ Aimed(k, h.asteroid)
                  /\ Launched[k].id \in IdSet(state.projectiles)


Intent(ship, code) ==
    IF code = "KeyW" THEN ship.movingForward
    ELSE IF code = "KeyA" THEN ship.turning.left
    ELSE IF code = "KeyD" THEN ship.turning.right
    ELSE ship.shooting

\* A reset leaves the three movement intents false and the shooting intent as
\* it was.
ResetIntents ==
    Updated =>
        \A i \in 1..Len(Log.resets) :
            /\ ~Log.resets[i].ship.movingForward
            /\ ~Log.resets[i].ship.turning.left
            /\ ~Log.resets[i].ship.turning.right
            /\ Log.resets[i].ship.shooting = Pre.ship.shooting

\* A movement or turn key that stays down across a step does not set its
\* intent again.
HeldKeyIdle ==
    \A code \in {"KeyW", "KeyA", "KeyD"} :
        (code \in held /\ code \in held' /\ ~Intent(state.ship, code)) =>
            ~Intent(state'.ship, code)

\* The update that follows a reset, the fire key down all the while and the
\* last shot at least SHOOTING_RATE ago.
AfterReset ==
    /\ Log.resets # <<>>
    /\ "Space" \in held /\ "Space" \in held'
    /\ frames' # frames
    /\ state'.timestamp - state.lastShotAt >= SHOOTING_RATE

\* C30: intents across a respawn. A reset leaves movingForward, turning.left
\* and turning.right false and the shooting intent unchanged; a movement or
\* turn key held through it has no effect until it is pressed again; with the
\* fire key held, the first update after the reset spawns a projectile.
C30_IntentsAcrossRespawn ==
    /\ []ResetIntents
    /\ [][HeldKeyIdle]_vars
    /\ [][AfterReset => call'.log.shots # <<>>]_vars

\* What holds instead for the fire key: the first update after the reset
\* spawns a projectile if the reset call left the ship alive, and none if the
\* regenerated field killed it in that same call.
FireOnceRevived ==
    /\ []ResetIntents
    /\ [][HeldKeyIdle]_vars
    /\ [][AfterReset =>
            (call'.log.shots # <<>> <=> state.ship.diedAt = Alive)]_vars

\* The first update after a reset that left the ship alive: the thrust key is
\* down without effect, the ship rests at the centre, and a shot was fired.
Revived ==
    /\ Updated /\ Log.resets = <<>>
    /\ Pre.timestamp > 0 /\ Pre.projectiles = <<>> /\ Pre.ship.diedAt = Alive
    /\ "KeyW" \in held /\ ~state.ship.movingForward
    /\ state.ship.pos = scale(GAME_SIZE, 500)
    /\ Len(Log.shots) = 1

=============================================================================
